---- MODULE Spec2Model ----
(***************************************************************************)
(* Fit Buddy API (src/app.py, src/database.py, src/utils.py).              *)
(*                                                                         *)
(* The model follows the request handlers that write to storage:           *)
(* POST /api/sync/<date> (sync_date_to_database), the fetch-and-display    *)
(* endpoints (get_steps, get_heartrate, ...), and GET /api/db/<data_type>  *)
(* (get_db_data).  Every request runs in a worker with its own SQLAlchemy  *)
(* session (db.session is request scoped); the seven tables of             *)
(* src/database.py are shared.                                             *)
(*                                                                         *)
(* Session semantics (Flask-SQLAlchemy defaults): objects passed to        *)
(* session.add / session.merge are pending until a flush; a Query          *)
(* autoflushes first; a flush that violates a UniqueConstraint raises,     *)
(* rolls the transaction back and leaves the session unusable until        *)
(* session.rollback(); commit flushes and makes the rows visible to the    *)
(* other sessions (READ COMMITTED).  An INSERT whose key collides with an  *)
(* uncommitted INSERT of another transaction waits for that transaction.   *)
(***************************************************************************)
EXTENDS Integers, Sequences, FiniteSets, TLC

\* ------------------------------------------------------------------ bounds
\* Total number of requests accepted in one run of the model.
MaxRequests == 2
\* Number of those requests that meet a provider fetch that is not "ok".
MaxFaulty == 1

\* ------------------------------------------------------------------ domains
\* Two concurrently served requests (worker threads).
Workers == {"w1", "w2"}
Emails == {"u1"}
Dates == {"d1"}
\* get_yesterday_date(): the date the fetch-and-display endpoints use.
Yesterday == "d1"
BadDate == "not-a-date"
ActivityIds == {"act1"}

Families ==
  {"steps", "heart_rate", "sleep", "stress", "body_battery", "activities", "health_metrics"}

Null == "null"
Zero == "0"
EmptyList == "[]"
Unset == "unset"
\* A provider snapshot of one day: `a` is the family's primary metric, `b` a
\* secondary one; P2 lacks `b` (the provider omits it).
Payloads == {[a |-> "v1", b |-> "w1"], [a |-> "v2", b |-> Null]}
NoPayload == [a |-> Null, b |-> Null]

\* What one provider fetch does: "ok" returns the snapshot, "empty" an empty
\* document (None / {} / []), "badshape" a document whose nested object is null;
\* "conn", "auth" and "rate" raise.
Raises(o) == o \in {"conn", "auth"}
\* The combinations of non-ok fetches one request may meet: none, any single one,
\* or an outage of the two daily-summary endpoints.
FaultSets == {{}} \cup {{f} : f \in Families} \cup {{"steps", "heart_rate"}}

VARIABLES
  db,          \* [Families -> Seq(row)]: the committed rows of each table
  pc,          \* [Workers -> position of the request the worker serves]
  req,         \* [Workers -> the request]
  pendingNew,  \* [Workers -> set of <<family, row>>]: session.new, not flushed
  txNew,       \* [Workers -> set of <<family, row>>]: INSERTed, not committed
  dirty,       \* [Workers -> set of [fam, idx, row]]: modified persistent rows
  txOk,        \* [Workers -> BOOLEAN]: FALSE after a failed flush until rollback
  sync_status, \* [Workers -> [Families -> status string]], Unset: no entry yet
  resp,        \* [Workers -> HTTP status code of the response, 0 while running]
  faults,      \* [Workers -> families whose fetch was not "ok" in this request]
  served,      \* number of requests accepted so far
  faulty,      \* number of requests that met a fetch that was not "ok"
  raced,       \* history: workers whose key lookup missed a row that another
               \* request had looked up, not found, and not yet committed
  calc,        \* the last evaluation of one of the handlers' computations:
               \* [op, arg, out]; only the steps of SpecCalc change it
  tokenstore,  \* the token directory of get_garmin_client: the account whose
               \* tokens it holds and whether the provider still accepts them
  stored_as,   \* history: set of [email, account]: rows were stored under email
               \* from data fetched with a session of account
  last_auth    \* the last Garmin-data request answered: X-Email, what its
               \* X-Password is to the provider, and the response code
               \* (only the steps of SpecAuth change these three)

authVars == <<tokenstore, stored_as, last_auth>>

vars ==
  <<db, pc, req, pendingNew, txNew, dirty, txOk, sync_status, resp, faults, served,
    faulty, raced, calc, authVars>>

NoStatus == [f \in Families |-> Unset]
\* login: the outcome of get_garmin_client, "none" while it was not called.
NoReq ==
  [kind |-> "none", email |-> "", date |-> "", payload |-> NoPayload, fam |-> "",
   login |-> "none"]

NoCalc == [op |-> "none", arg |-> <<>>, out |-> <<>>]

\* The token directory before anybody logged in.
NoTokens == [owner |-> "none", usable |-> FALSE]
NoAuth == [email |-> "none", password |-> "missing", code |-> 0]

Init ==
  /\ db = [f \in Families |-> <<>>]
  /\ pc = [w \in Workers |-> "idle"]
  /\ req = [w \in Workers |-> NoReq]
  /\ pendingNew = [w \in Workers |-> {}]
  /\ txNew = [w \in Workers |-> {}]
  /\ dirty = [w \in Workers |-> {}]
  /\ txOk = [w \in Workers |-> TRUE]
  /\ sync_status = [w \in Workers |-> NoStatus]
  /\ resp = [w \in Workers |-> 0]
  /\ faults = [w \in Workers |-> {}]
  /\ served = 0
  /\ faulty = 0
  /\ tokenstore = NoTokens
  /\ stored_as = {}
  /\ last_auth = NoAuth
  /\ raced = {}
  /\ calc = NoCalc

\* ------------------------------------------------------------------ storage
\* A row of a per-day table: key = date; of activity_data: key = activity_id.
Row(e, k, d, a, b) == [email |-> e, key |-> k, date |-> d, a |-> a, b |-> b]

\* Model.query.filter_by(email=..., <key>=...).first() over the committed rows:
\* the position of the first match, 0 when there is none.
Lookup(f, e, k) ==
  IF \E i \in 1..Len(db[f]) : db[f][i].email = e /\ db[f][i].key = k
  THEN CHOOSE i \in 1..Len(db[f]) :
         /\ db[f][i].email = e /\ db[f][i].key = k
         /\ \A j \in 1..(i - 1) : ~(db[f][j].email = e /\ db[f][j].key = k)
  ELSE 0

\* Variant: the tables declare no UniqueConstraint, every INSERT is accepted.
NoUniqueConstraint(f, r) == FALSE

\* db.UniqueConstraint('email', 'date') / ('email', 'activity_id'): an INSERT of
\* row r into table f is rejected when a committed row has the same natural key.
UniqueViolation(f, r) ==
  \E i \in 1..Len(db[f]) : db[f][i].email = r.email /\ db[f][i].key = r.key

SameKey(p, q) == p[1] = q[1] /\ p[2].email = q[2].email /\ p[2].key = q[2].key

\* An INSERT waits while another transaction holds an uncommitted row of the key.
FlushBlocked(w) ==
  \E o \in Workers \ {w} : \E p \in pendingNew[w] : \E t \in txNew[o] : SameKey(p, t)

\* The flush of the pending objects raises IntegrityError.
FlushFails(w) ==
  \/ \E p \in pendingNew[w] : UniqueViolation(p[1], p[2])
  \/ \E p \in pendingNew[w] : \E t \in txNew[w] : SameKey(p, t)
  \/ \E p \in pendingNew[w] : \E q \in pendingNew[w] : p # q /\ SameKey(p, q)

\* The session after the statement `existing = Model.query.filter_by(...).first()`
\* followed by `existing.<field> = ...` (found) or `db.session.add(Model(...))`
\* (not found).  raised: the query raised (PendingRollbackError on a session whose
\* flush failed before, IntegrityError when the autoflush fails now).
FindThenWrite(w, f, r) ==
  IF ~txOk[w]
  THEN [raised |-> TRUE, found |-> FALSE, pn |-> pendingNew[w], tn |-> txNew[w],
        di |-> dirty[w], ok |-> FALSE]
  ELSE IF FlushFails(w)
  THEN [raised |-> TRUE, found |-> FALSE, pn |-> {}, tn |-> {}, di |-> {}, ok |-> FALSE]
  ELSE LET idx == Lookup(f, r.email, r.key)
           tn == txNew[w] \cup pendingNew[w]
       IN IF idx > 0
          THEN [raised |-> FALSE, found |-> TRUE, pn |-> {}, tn |-> tn,
                di |-> {u \in dirty[w] : ~(u.fam = f /\ u.idx = idx)}
                         \cup {[fam |-> f, idx |-> idx, row |-> r]},
                ok |-> TRUE]
          ELSE [raised |-> FALSE, found |-> FALSE, pn |-> {<<f, r>>}, tn |-> tn,
                di |-> dirty[w], ok |-> TRUE]

\* The rows a set of <<family, row>> holds for table f, in some order.
RECURSIVE SeqOf(_)
SeqOf(S) == IF S = {} THEN <<>> ELSE LET x == CHOOSE x \in S : TRUE
                                     IN <<x>> \o SeqOf(S \ {x})

\* Variant: an update is written as DELETE of the old row, and the re-INSERT
\* of the new one is lost.
CommittedReplacing(w, f) ==
  LET kept == SelectSeq(db[f], LAMBDA r :
                  ~\E u \in dirty[w] :
                      u.fam = f /\ u.row.email = r.email /\ u.row.key = r.key)
      ins == {p[2] : p \in {q \in txNew[w] \cup pendingNew[w] : q[1] = f}}
  IN kept \o SeqOf(ins)

\* db.session.commit() of worker w when the flush succeeds: the UPDATEs of the
\* modified rows, then the INSERTed rows appended.
Committed(w, f) ==
  LET upd == [i \in 1..Len(db[f]) |->
                IF \E u \in dirty[w] : u.fam = f /\ u.idx = i
                THEN (CHOOSE u \in dirty[w] : u.fam = f /\ u.idx = i).row
                ELSE db[f][i]]
      ins == {p[2] : p \in {q \in txNew[w] \cup pendingNew[w] : q[1] = f}}
  IN upd \o SeqOf(ins)

SetSession(w, pn, tn, di, ok) ==
  /\ pendingNew' = [pendingNew EXCEPT ![w] = pn]
  /\ txNew' = [txNew EXCEPT ![w] = tn]
  /\ dirty' = [dirty EXCEPT ![w] = di]
  /\ txOk' = [txOk EXCEPT ![w] = ok]

SessionUnchanged == UNCHANGED <<pendingNew, txNew, dirty, txOk, raced>>

\* The other syncs that looked the key of row r up in table f, found nothing and
\* hold their new row uncommitted.
Racers(w, f, r) ==
  {o \in Workers \ {w} :
     /\ req[o].kind = "sync"
     /\ \E p \in pendingNew[o] \cup txNew[o] : SameKey(p, <<f, r>>)}

\* History of the lookup of res == FindThenWrite(w, f, r).
NoteLookup(w, f, r, res) ==
  raced' = IF ~res.raised /\ ~res.found /\ Racers(w, f, r) # {}
           THEN raced \cup {w} \cup Racers(w, f, r)
           ELSE raced

\* ------------------------------------------------------------------ provider
\* f'error: {str(e)}' for the exception a fetch raised.
FetchError(o) == IF o = "auth" THEN "error: auth" ELSE "error: conn"
StorageError == "error: storage"
ShapeError == "error: shape"
NameError == "error: NameError"

\* The environment: which fetch outcomes a request may still meet.  A second
\* non-ok fetch in one request happens only as the outage of both daily-summary
\* endpoints (steps raised a connection error, heart rate raises one too).
EnvAllows(w, f, o) ==
  \/ o = "ok"
  \/ faults[w] = {} /\ faulty < MaxFaulty
  \/ /\ faults[w] # {}
     /\ (faults[w] \cup {f}) \in FaultSets
     /\ o = "conn"
     /\ sync_status[w]["steps"] = FetchError("conn")
NoteFault(w, f, o) ==
  /\ faults' = [faults EXCEPT ![w] = IF o = "ok" THEN @ ELSE @ \cup {f}]
  /\ faulty' = IF o # "ok" /\ faults[w] = {} THEN faulty + 1 ELSE faulty

\* The document the provider returned for outcome o.
Doc(w, o) == IF o = "ok" THEN req[w].payload ELSE NoPayload

Default(v, d) == IF v = Null THEN d ELSE v

\* Steps that touch only the worker's own request state commute with every step
\* of the other workers, so the model runs them without interleaving: the two
\* db.session.merge blocks right after the request is accepted (merge of a record
\* without primary key issues no statement), and the delivery of the response.
Local(w) == pc[w] \in {"steps", "heart_rate", "done"}
Turn(w) == \A o \in Workers \ {w} : ~Local(o)

\* A new request is handed to the first idle worker (the workers are identical).
Accepts(w) ==
  /\ Turn(w)
  /\ pc[w] = "idle"
  /\ w = "w2" => pc["w1"] # "idle"
  /\ served < MaxRequests

\* ------------------------------------------------------------------ POST /api/sync/<date>
SetStatus(w, f, st, next) ==
  /\ sync_status' = [sync_status EXCEPT ![w][f] = st]
  /\ pc' = [pc EXCEPT ![w] = next]

\* Variant: the client is obtained first, the date is validated afterwards.
SyncStartLoginFirst(w) ==
  /\ Accepts(w)
  /\ served' = served + 1
  /\ \E e \in Emails, d \in Dates \cup {BadDate}, p \in Payloads, login \in {"ok", "auth"} :
       /\ req' = [req EXCEPT ![w] =
                    [kind |-> "sync", email |-> e, date |-> d, payload |-> p, fam |-> "",
                     login |-> login]]
       /\ IF login = "auth"
          THEN /\ resp' = [resp EXCEPT ![w] = 401]
               /\ pc' = [pc EXCEPT ![w] = "done"]
          ELSE IF d = BadDate
          THEN /\ resp' = [resp EXCEPT ![w] = 400]
               /\ pc' = [pc EXCEPT ![w] = "done"]
          ELSE /\ resp' = [resp EXCEPT ![w] = 0]
               /\ pc' = [pc EXCEPT ![w] = "steps"]
  /\ UNCHANGED <<db, sync_status, faults, faulty, calc, authVars>>
  /\ SessionUnchanged

\* The head of sync_date_to_database: date validation, then get_garmin_client.
SyncStart(w) ==
  /\ Accepts(w)
  /\ served' = served + 1
  /\ \E e \in Emails, d \in Dates \cup {BadDate}, p \in Payloads, login \in {"ok", "auth"} :
       /\ req' = [req EXCEPT ![w] =
                    [kind |-> "sync", email |-> e, date |-> d, payload |-> p, fam |-> "",
                     login |-> IF d = BadDate THEN "none" ELSE login]]
       /\ IF d = BadDate
          THEN /\ resp' = [resp EXCEPT ![w] = 400]
               /\ pc' = [pc EXCEPT ![w] = "done"]
          ELSE IF login = "auth"
          THEN /\ resp' = [resp EXCEPT ![w] = 401]
               /\ pc' = [pc EXCEPT ![w] = "done"]
          ELSE /\ resp' = [resp EXCEPT ![w] = 0]
               /\ pc' = [pc EXCEPT ![w] = "steps"]
  /\ UNCHANGED <<db, sync_status, faults, faulty, calc, authVars>>
  /\ SessionUnchanged

\* db.session.merge(record) of a record built without its primary key `id`:
\* merge finds no identity to load, so the copy becomes a pending INSERT.
MergeNew(w, f, r) ==
  /\ SetSession(w, pendingNew[w] \cup {<<f, r>>}, txNew[w], dirty[w], txOk[w])
  /\ UNCHANGED raced

StepsRow(w, doc) ==
  Row(req[w].email, req[w].date, req[w].date, Default(doc.a, Zero), Default(doc.b, EmptyList))

SyncSteps(w) ==
  /\ Turn(w)
  /\ pc[w] = "steps"
  /\ \E o \in {"ok", "conn", "auth"} :
       /\ EnvAllows(w, "steps", o)
       /\ NoteFault(w, "steps", o)
       /\ IF Raises(o)
          THEN /\ SetStatus(w, "steps", FetchError(o), "heart_rate")
               /\ SessionUnchanged
          ELSE /\ MergeNew(w, "steps", StepsRow(w, Doc(w, o)))
               /\ SetStatus(w, "steps", "success", "heart_rate")
  /\ UNCHANGED <<db, req, resp, served, calc, authVars>>

HeartRateRow(w, doc) == Row(req[w].email, req[w].date, req[w].date, doc.a, doc.b)

SyncHeartRate(w) ==
  /\ Turn(w)
  /\ pc[w] = "heart_rate"
  /\ \E o \in {"ok", "conn", "auth"} :
       /\ EnvAllows(w, "heart_rate", o)
       /\ NoteFault(w, "heart_rate", o)
       /\ IF Raises(o)
          THEN /\ SetStatus(w, "heart_rate", FetchError(o), "sleep")
               /\ SessionUnchanged
          ELSE /\ MergeNew(w, "heart_rate", HeartRateRow(w, Doc(w, o)))
               /\ SetStatus(w, "heart_rate", "success", "sleep")
  /\ UNCHANGED <<db, req, resp, served, calc, authVars>>

\* Variant: the except clause of the block only logs, it records no status.
UpsertLogOnly(w, f, r, next) ==
  LET res == FindThenWrite(w, f, r)
  IN /\ ~FlushBlocked(w)
     /\ SetSession(w, res.pn, res.tn, res.di, res.ok)
     /\ NoteLookup(w, f, r, res)
     /\ SetStatus(w, f, IF res.raised THEN sync_status[w][f] ELSE "success", next)

\* The find-then-update-or-insert of one per-day family, and its status.
Upsert(w, f, r, next) ==
  LET res == FindThenWrite(w, f, r)
  IN /\ ~FlushBlocked(w)
     /\ SetSession(w, res.pn, res.tn, res.di, res.ok)
     /\ NoteLookup(w, f, r, res)
     /\ SetStatus(w, f, IF res.raised THEN StorageError ELSE "success", next)

SleepRow(w, doc) == Row(req[w].email, req[w].date, req[w].date, doc.a, doc.b)

\* dailySleepDTO is null: the score and the duration fall back to the root
\* fields and are assigned to an existing row, then daily_sleep.get raises.
SleepBadShape(w) ==
  LET r == SleepRow(w, req[w].payload)
      res == FindThenWrite(w, "sleep", r)
      old == db["sleep"][Lookup("sleep", r.email, r.key)]
      part == [old EXCEPT !.a = r.a]
  IN IF res.raised
     THEN /\ ~FlushBlocked(w)
          /\ SetSession(w, res.pn, res.tn, res.di, res.ok)
          /\ UNCHANGED raced
          /\ SetStatus(w, "sleep", StorageError, "stress")
     ELSE /\ ~FlushBlocked(w)
          /\ SetSession(w, {}, res.tn,
                        IF res.found
                        THEN {u \in res.di : ~(u.fam = "sleep")}
                               \cup {[fam |-> "sleep",
                                      idx |-> Lookup("sleep", r.email, r.key),
                                      row |-> part]}
                        ELSE res.di,
                        res.ok)
          /\ UNCHANGED raced
          /\ SetStatus(w, "sleep", ShapeError, "stress")

SyncSleep(w) ==
  /\ Turn(w)
  /\ pc[w] = "sleep"
  /\ \E o \in {"ok", "empty", "badshape", "conn", "auth"} :
       /\ EnvAllows(w, "sleep", o)
       /\ NoteFault(w, "sleep", o)
       /\ IF Raises(o)
          THEN /\ SetStatus(w, "sleep", FetchError(o), "stress")
               /\ SessionUnchanged
          ELSE IF o = "empty"
          THEN /\ SetStatus(w, "sleep", "no_data", "stress")
               /\ SessionUnchanged
          ELSE IF o = "badshape"
          THEN SleepBadShape(w)
          ELSE Upsert(w, "sleep", SleepRow(w, Doc(w, o)), "stress")
  /\ UNCHANGED <<db, req, resp, served, calc, authVars>>

StressRow(w, doc) ==
  Row(req[w].email, req[w].date, req[w].date, Default(doc.a, Zero), Default(doc.b, Zero))

SyncStress(w) ==
  /\ Turn(w)
  /\ pc[w] = "stress"
  /\ \E o \in {"ok", "empty", "conn", "auth"} :
       /\ EnvAllows(w, "stress", o)
       /\ NoteFault(w, "stress", o)
       /\ IF Raises(o)
          THEN /\ SetStatus(w, "stress", FetchError(o), "body_battery")
               /\ SessionUnchanged
          ELSE IF o = "empty"
          \* 'no_data' is overwritten by 'success' on line 1361, and line 1362
          \* reads average_stress, which this branch never assigned.
          THEN /\ SetStatus(w, "stress", NameError, "body_battery")
               /\ SessionUnchanged
          ELSE Upsert(w, "stress", StressRow(w, Doc(w, o)), "body_battery")
  /\ UNCHANGED <<db, req, resp, served, calc, authVars>>

BodyBatteryRow(w, doc) == Row(req[w].email, req[w].date, req[w].date, doc.a, doc.b)

SyncBodyBattery(w) ==
  /\ Turn(w)
  /\ pc[w] = "body_battery"
  /\ \E o \in {"ok", "conn", "auth"} :
       /\ EnvAllows(w, "body_battery", o)
       /\ NoteFault(w, "body_battery", o)
       /\ IF Raises(o)
          THEN /\ SetStatus(w, "body_battery", FetchError(o), "activities")
               /\ SessionUnchanged
          ELSE Upsert(w, "body_battery", BodyBatteryRow(w, Doc(w, o)), "activities")
  /\ UNCHANGED <<db, req, resp, served, calc, authVars>>

ActivityRow(w, id, doc) ==
  Row(req[w].email, id, req[w].date, Default(doc.a, Zero), doc.b)

\* The activities block: the list fetch (get_activities_by_date, whose failure is
\* swallowed, then get_activities_fordate), then per activity the detail fetch and
\* the find-then-update-or-insert inside its own try/except, which only logs.
SyncActivities(w) ==
  /\ Turn(w)
  /\ pc[w] = "activities"
  /\ \E o \in {"ok", "empty", "conn", "auth"} :
       /\ EnvAllows(w, "activities", o)
       /\ NoteFault(w, "activities", o)
       /\ IF Raises(o)
          THEN /\ SetStatus(w, "activities", FetchError(o), "health_metrics")
               /\ SessionUnchanged
          ELSE IF o = "empty"
          THEN /\ SetStatus(w, "activities", "success", "health_metrics")
               /\ SessionUnchanged
          ELSE LET id == CHOOSE id \in ActivityIds : TRUE
                   r == ActivityRow(w, id, Doc(w, o))
                   res == FindThenWrite(w, "activities", r)
               IN /\ ~FlushBlocked(w)
                  /\ SetSession(w, res.pn, res.tn, res.di, res.ok)
                  /\ NoteLookup(w, "activities", r, res)
                  /\ SetStatus(w, "activities", "success", "health_metrics")
  /\ UNCHANGED <<db, req, resp, served, calc, authVars>>

HealthRow(w, doc) == Row(req[w].email, req[w].date, req[w].date, doc.a, doc.b)

\* The health-metrics block: the fetches of the sub-metrics (max metrics, HRV,
\* training readiness, training status, hydration, intensity minutes, floors,
\* SpO2, respiration) in one try, then the upsert; "conn" / "auth": one of these
\* fetches raised.
SyncHealthMetrics(w) ==
  /\ Turn(w)
  /\ pc[w] = "health_metrics"
  /\ \E o \in {"ok", "conn", "auth"} :
       /\ EnvAllows(w, "health_metrics", o)
       /\ NoteFault(w, "health_metrics", o)
       /\ IF Raises(o)
          THEN /\ SetStatus(w, "health_metrics", FetchError(o), "commit")
               /\ SessionUnchanged
          ELSE Upsert(w, "health_metrics", HealthRow(w, Doc(w, o)), "commit")
  /\ UNCHANGED <<db, req, resp, served, calc, authVars>>

\* db.session.rollback(), and the state of a fresh session.
ResetSession(w) == SetSession(w, {}, {}, {}, TRUE)

\* "Commit all changes": one commit for the seven families; on failure rollback
\* and 500, with the sync_status map built so far in the body.
SyncCommit(w) ==
  /\ Turn(w)
  /\ pc[w] = "commit"
  /\ ~FlushBlocked(w)
  /\ IF ~txOk[w] \/ FlushFails(w)
     THEN /\ resp' = [resp EXCEPT ![w] = 500]
          /\ UNCHANGED db
     ELSE /\ resp' = [resp EXCEPT ![w] = 200]
          /\ db' = [f \in Families |-> Committed(w, f)]
  /\ ResetSession(w)
  /\ pc' = [pc EXCEPT ![w] = "done"]
  /\ UNCHANGED <<req, sync_status, faults, served, faulty, raced, calc, authVars>>

\* The response is sent and the request context torn down.
Finish(w) ==
  /\ Turn(w)
  /\ pc[w] = "done"
  /\ pc' = [pc EXCEPT ![w] = "idle"]
  /\ req' = [req EXCEPT ![w] = NoReq]
  /\ sync_status' = [sync_status EXCEPT ![w] = NoStatus]
  /\ resp' = [resp EXCEPT ![w] = 0]
  /\ faults' = [faults EXCEPT ![w] = {}]
  /\ raced' = raced \ {w}
  /\ ResetSession(w)
  /\ UNCHANGED <<db, served, faulty, calc, authVars>>

\* ------------------------------------------------------------------ GET /api/<family>
\* The row a fetch-and-display endpoint stores for yesterday.
DisplayRow(f, e, doc) ==
  CASE f = "steps" -> Row(e, Yesterday, Yesterday, Default(doc.a, Zero), Default(doc.b, EmptyList))
    [] f = "stress" -> Row(e, Yesterday, Yesterday, Default(doc.a, Zero), Default(doc.b, Zero))
    [] f = "activities" -> Row(e, CHOOSE id \in ActivityIds : TRUE, Yesterday, doc.a, doc.b)
    [] OTHER -> Row(e, Yesterday, Yesterday, doc.a, doc.b)

\* The fetch-and-display endpoints: one per family, and /api/all (get_all_data).
Endpoints == Families \cup {"all"}

\* The except clauses of each endpoint: the status code for a raised fetch
\* (GarminConnectAuthenticationError, GarminConnectConnectionError,
\* GarminConnectTooManyRequestsError); what no clause names falls to
\* `except Exception`.
DisplayErrorCode(f, o) ==
  IF o = "auth" THEN 401
  ELSE IF o = "conn" /\ f \in {"steps", "heart_rate", "sleep", "stress"} THEN 503
  ELSE IF o = "rate" /\ f = "steps" THEN 429
  ELSE 500

\* get_steps, get_heartrate, get_sleep, get_stress, get_body_battery,
\* get_activities, get_health_metrics up to the commit: login, fetch, resolve,
\* then find-then-update-or-insert in the session.
DisplayFetch(w) ==
  /\ Accepts(w)
  /\ served' = served + 1
  /\ \E f \in Families, e \in Emails, p \in Payloads, login \in {"ok", "auth"},
        o \in {"ok", "conn", "auth", "rate"} :
       LET doc == IF o = "ok" THEN p ELSE NoPayload
           res == FindThenWrite(w, f, DisplayRow(f, e, doc))
       IN /\ req' = [req EXCEPT ![w] =
                       [kind |-> "display", email |-> e, date |-> Yesterday,
                        payload |-> doc, fam |-> f, login |-> login]]
          /\ EnvAllows(w, f, o)
          /\ NoteFault(w, f, o)
          /\ IF login = "auth"
             THEN /\ o = "ok"
                  /\ resp' = [resp EXCEPT ![w] = 401]
                  /\ pc' = [pc EXCEPT ![w] = "done"]
                  /\ SessionUnchanged
             ELSE IF o \in {"conn", "auth", "rate"}
             THEN /\ resp' = [resp EXCEPT ![w] = DisplayErrorCode(f, o)]
                  /\ pc' = [pc EXCEPT ![w] = "done"]
                  /\ SessionUnchanged
             ELSE /\ resp' = [resp EXCEPT ![w] = 0]
                  /\ pc' = [pc EXCEPT ![w] = "display_commit"]
                  /\ SetSession(w, res.pn, res.tn, res.di, res.ok)
                  /\ UNCHANGED raced
  /\ UNCHANGED <<db, sync_status, calc, authVars>>

\* db.session.commit() inside try; except: db.session.rollback().  The response
\* is 200 either way ("Don't fail the request if DB storage fails").
DisplayCommit(w) ==
  /\ Turn(w)
  /\ pc[w] = "display_commit"
  /\ ~FlushBlocked(w)
  /\ IF ~txOk[w] \/ FlushFails(w)
     THEN UNCHANGED db
     ELSE db' = [f \in Families |-> Committed(w, f)]
  /\ resp' = [resp EXCEPT ![w] = 200]
  /\ ResetSession(w)
  /\ pc' = [pc EXCEPT ![w] = "done"]
  /\ UNCHANGED <<req, sync_status, faults, served, faulty, raced, calc, authVars>>

\* ------------------------------------------------------------------ GET /api/db/<data_type>
DataTypes ==
  {"steps", "heartrate", "sleep", "stress", "bodybattery", "activities", "healthmetrics"}
\* data_type_map
DataTypeFamily(t) ==
  CASE t = "heartrate" -> "heart_rate"
    [] t = "bodybattery" -> "body_battery"
    [] t = "healthmetrics" -> "health_metrics"
    [] OTHER -> t

\* The rows model.query.filter_by(email=email, date=date_obj) matches.
RowsOn(f, e, d) == {i \in 1..Len(db[f]) : db[f][i].email = e /\ db[f][i].date = d}

GetDbDataCode(t, e, d) ==
  IF e = "" THEN 400
  ELSE IF d = "" THEN 400
  ELSE IF d = BadDate THEN 400
  ELSE IF t \notin DataTypes THEN 400
  ELSE IF RowsOn(DataTypeFamily(t), e, d) = {} THEN 404
  ELSE 200

GetDbData(w) ==
  /\ Accepts(w)
  /\ served' = served + 1
  /\ \E t \in DataTypes \cup {"unknown"}, e \in Emails \cup {""}, d \in Dates \cup {BadDate, ""} :
       /\ req' = [req EXCEPT ![w] =
                    [kind |-> "read", email |-> e, date |-> d, payload |-> NoPayload,
                     fam |-> t, login |-> "none"]]
       /\ resp' = [resp EXCEPT ![w] = GetDbDataCode(t, e, d)]
  /\ pc' = [pc EXCEPT ![w] = "done"]
  /\ UNCHANGED <<db, sync_status, faults, faulty, calc, authVars>>
  /\ SessionUnchanged

\* ------------------------------------------------------------------ specification
\* One step of the request worker w serves.
Step(w) ==
  \/ SyncStart(w)
  \/ SyncSteps(w)
  \/ SyncHeartRate(w)
  \/ SyncSleep(w)
  \/ SyncStress(w)
  \/ SyncBodyBattery(w)
  \/ SyncActivities(w)
  \/ SyncHealthMetrics(w)
  \/ SyncCommit(w)
  \/ DisplayFetch(w)
  \/ DisplayCommit(w)
  \/ GetDbData(w)
  \/ Finish(w)

\* Two workers serve requests concurrently.
Next == \E w \in Workers : Step(w)

Spec == Init /\ [][Next]_vars

\* ------------------------------------------------------------------ computations
\* The state of the request workers, which the computations below do not touch.
reqVars ==
  <<db, pc, req, pendingNew, txNew, dirty, txOk, sync_status, resp, faults, served,
    faulty, raced>>

\* An endpoint's fetch raises o: the status code its except clauses answer.
\* (Each behaviour of SpecCalc evaluates one computation on one input.)
CalcErrorCode ==
  /\ calc = NoCalc
  /\ \E f \in Endpoints, o \in {"auth", "conn", "rate"} :
       calc' = [op |-> "error_code", arg |-> <<f, o>>, out |-> DisplayErrorCode(f, o)]
  /\ UNCHANGED <<reqVars, authVars>>

\* ---- stress histogram (get_stress, sync_date_to_database, get_live_data)
\* duration_minutes = 3: each entry of stressValuesArray stands for 3 minutes.
SampleMinutes == 3
\* Longest stressValuesArray the model evaluates.
MaxSamples == 2
\* Stress levels: unmeasured (-1), and both ends of the four ranges.
Levels == {-1, 0, 25, 26, 50, 51, 75, 76}
\* An entry of stressValuesArray: "bad" is not a list of two or more elements,
\* "text" is [timestamp, <not a number>], "num" is [timestamp, level].
SampleEntries ==
  {[kind |-> "bad", level |-> 0], [kind |-> "text", level |-> 0]}
    \cup {[kind |-> "num", level |-> l] : l \in Levels}
SampleSeqs == UNION {[1..n -> SampleEntries] : n \in 0..MaxSamples}

\* What get_all_day_stress returned.  shape: None, a dict, a list whose first
\* element is a dict, an empty list, a list of scalars, a scalar.  For the two
\* shapes that carry a dict: values is stressValuesArray ("missing": no such key,
\* "null", "scalar": a number, "list": samples), and avgStressLevel /
\* maxStressLevel are present or not.
StressShapes == {"none", "dict", "list_dict", "list_empty", "list_scalar", "scalar"}
StressRaws ==
  {[shape |-> sh, values |-> "missing", samples |-> <<>>,
    hasAvg |-> FALSE, avg |-> 0, hasMax |-> FALSE, max |-> 0] :
      sh \in StressShapes \ {"dict", "list_dict"}}
  \cup
  [shape : {"dict", "list_dict"}, values : {"missing", "null", "scalar"}, samples : {<<>>},
   hasAvg : {FALSE}, avg : {0}, hasMax : {FALSE}, max : {0}]
  \cup
  [shape : {"dict", "list_dict"}, values : {"list"}, samples : SampleSeqs,
   hasAvg : {FALSE}, avg : {0}, hasMax : {FALSE}, max : {0}]
  \cup
  [shape : {"dict"}, values : {"list"}, samples : SampleSeqs,
   hasAvg : {TRUE}, avg : {40}, hasMax : {TRUE}, max : {30, 90}]

ZeroStats ==
  [rest |-> 0, low |-> 0, medium |-> 0, high |-> 0, total |-> 0, sum |-> 0, max |-> 0]

\* Variant: the upper ends of the ranges are compared with < instead of <=.
AddSampleStrict(st, v) ==
  IF v.kind = "bad" THEN st
  ELSE LET stress == IF v.kind = "num" THEN v.level ELSE 0
           b == IF 0 <= stress /\ stress < 25 THEN [st EXCEPT !.rest = @ + SampleMinutes]
                ELSE IF 26 <= stress /\ stress < 50 THEN [st EXCEPT !.low = @ + SampleMinutes]
                ELSE IF 51 <= stress /\ stress < 75 THEN [st EXCEPT !.medium = @ + SampleMinutes]
                ELSE IF stress > 75 THEN [st EXCEPT !.high = @ + SampleMinutes]
                ELSE st
       IN IF stress > 0
          THEN [b EXCEPT !.total = @ + SampleMinutes,
                         !.sum = @ + stress * SampleMinutes,
                         !.max = IF stress > @ THEN stress ELSE @]
          ELSE b

\* The body of `for value in stress_values`.
AddSample(st, v) ==
  IF v.kind = "bad" THEN st
  ELSE LET stress == IF v.kind = "num" THEN v.level ELSE 0
           b == IF 0 <= stress /\ stress <= 25 THEN [st EXCEPT !.rest = @ + SampleMinutes]
                ELSE IF 26 <= stress /\ stress <= 50 THEN [st EXCEPT !.low = @ + SampleMinutes]
                ELSE IF 51 <= stress /\ stress <= 75 THEN [st EXCEPT !.medium = @ + SampleMinutes]
                ELSE IF stress > 75 THEN [st EXCEPT !.high = @ + SampleMinutes]
                ELSE st
       IN IF stress > 0
          THEN [b EXCEPT !.total = @ + SampleMinutes,
                         !.sum = @ + stress * SampleMinutes,
                         !.max = IF stress > @ THEN stress ELSE @]
          ELSE b

RECURSIVE StressLoop(_, _)
StressLoop(st, samples) ==
  IF samples = <<>> THEN st ELSE StressLoop(AddSample(st, Head(samples)), Tail(samples))

\* round(num / den, 2) in hundredths (round half to even); den > 0, num >= 0.
Round2(num, den) ==
  LET q == (100 * num) \div den
      r == (100 * num) % den
  IN IF 2 * r > den \/ (2 * r = den /\ q % 2 = 1) THEN q + 1 ELSE q

\* Whether the handler ends with a dict in stress_data.
HasDict(raw) == raw.shape \in {"dict", "list_dict"}

\* "Use API average if available, otherwise calculate", then round(..., 2); in
\* hundredths.
StressAverage(raw, stats) ==
  IF HasDict(raw) /\ raw.hasAvg THEN 100 * raw.avg
  ELSE IF stats.total > 0 THEN Round2(stats.sum, stats.total)
  ELSE 0

\* Variant: the upstream maximum replaces the local one whenever it is present.
StressMaxOverride(raw, stats) ==
  IF HasDict(raw) /\ raw.hasMax THEN raw.max ELSE stats.max

\* "Use API max if available": only when it exceeds the local maximum.
StressMax(raw, stats) ==
  IF HasDict(raw) /\ raw.hasMax /\ raw.max > stats.max THEN raw.max ELSE stats.max

\* The stress computation of one handler (path: "display" is get_stress, "sync"
\* is sync_date_to_database, "live" is get_live_data) on the document raw.
\* status: "ok", or the exception that ended the computation.
StressCompute(path, raw) ==
  LET failed(e) == [status |-> e, stats |-> ZeroStats, avg100 |-> 0, max |-> 0]
      stats == IF HasDict(raw) /\ raw.values = "list"
               THEN StressLoop(ZeroStats, raw.samples)
               ELSE ZeroStats
      done == [status |-> "ok", stats |-> stats, avg100 |-> StressAverage(raw, stats),
               max |-> StressMax(raw, stats)]
  IN CASE path = "sync" ->
            \* None: 'no_data', then line 1362 reads the unassigned average_stress
            IF raw.shape = "none" THEN failed("NameError") ELSE done
       [] path = "display" ->
            \* stress_data_raw[0] is not a dict: stress_data.get raises
            IF raw.shape = "list_scalar" THEN failed("AttributeError")
            \* `for value in stress_values` over None or a number
            ELSE IF HasDict(raw) /\ raw.values \in {"null", "scalar"} THEN failed("TypeError")
            ELSE done
       [] OTHER ->
            IF HasDict(raw) /\ raw.values \in {"null", "scalar"} THEN failed("TypeError")
            ELSE [done EXCEPT !.avg100 = IF HasDict(raw) /\ raw.hasAvg THEN 100 * raw.avg ELSE 0,
                              !.max = IF HasDict(raw) /\ raw.hasMax THEN raw.max ELSE 0]

StressPaths == {"display", "sync", "live"}

CalcStress ==
  /\ calc = NoCalc
  /\ \E path \in StressPaths, raw \in StressRaws :
       calc' = [op |-> "stress", arg |-> <<path, raw>>, out |-> StressCompute(path, raw)]
  /\ UNCHANGED <<reqVars, authVars>>

\* ---- floors climbed (get_health_metrics, sync_date_to_database, get_all_data,
\* get_live_data)
\* Longest floorValuesArray the model evaluates.
MaxFloorEntries == 2
\* An entry of floorValuesArray: "bad" is not a list of three or more elements,
\* "text" has a third element that is not a number, "num" is
\* [start, end, floorsAscended, floorsDescended].
FloorEntries ==
  {[kind |-> "bad", up |-> 0], [kind |-> "text", up |-> 0]}
    \cup {[kind |-> "num", up |-> n] : n \in {0, 2, 5}}
FloorSeqs == UNION {[1..n -> FloorEntries] : n \in 0..MaxFloorEntries}

\* What get_floors returned: None, a number, or a dict whose floorValuesArray is
\* missing, null, a number, or a list of entries.
FloorRaws ==
  {[shape |-> "none", array |-> "missing", entries |-> <<>>, scalar |-> 0]}
  \cup [shape : {"scalar"}, array : {"missing"}, entries : {<<>>}, scalar : {0, 7}]
  \cup [shape : {"dict"}, array : {"missing", "null", "scalar"}, entries : {<<>>}, scalar : {0}]
  \cup [shape : {"dict"}, array : {"list"}, entries : FloorSeqs, scalar : {0}]

\* The sum of entry[2] over the entries the loops accept (a third element that
\* is not a number adds 0, or is skipped on /api/all).
RECURSIVE FloorSum(_)
FloorSum(entries) ==
  IF entries = <<>> THEN 0
  ELSE (IF Head(entries).kind = "num" THEN Head(entries).up ELSE 0) + FloorSum(Tail(entries))

FloorPaths == {"healthmetrics", "sync", "all", "live"}

\* floors_climbed as each handler resolves it: [status, present, value];
\* present = FALSE is None.
FloorsCompute(path, raw) ==
  LET absent == [status |-> "ok", present |-> FALSE, value |-> 0]
      some(n) == [status |-> "ok", present |-> TRUE, value |-> n]
      failed == [status |-> "TypeError", present |-> FALSE, value |-> 0]
      total == FloorSum(raw.entries)
  IN CASE path \in {"healthmetrics", "sync"} ->
            IF raw.shape = "dict"
            THEN IF raw.array = "list" /\ raw.entries # <<>> /\ total > 0
                 THEN some(total) ELSE absent
            ELSE IF raw.shape = "scalar" /\ raw.scalar # 0 THEN some(raw.scalar)
            ELSE absent
       [] path = "all" ->
            \* sum(...) if floors_data.get('floorValuesArray') else None
            IF raw.shape = "dict"
            THEN IF raw.array = "list" /\ raw.entries # <<>> THEN some(total)
                 ELSE IF raw.array = "scalar" THEN failed
                 ELSE absent
            ELSE absent
       [] OTHER ->
            \* total_floors if total_floors > 0 else None, inside try
            IF raw.shape = "dict"
            THEN IF raw.array = "list" THEN (IF total > 0 THEN some(total) ELSE absent)
                 ELSE IF raw.array \in {"null", "scalar"} THEN failed
                 ELSE absent
            ELSE absent

CalcFloors ==
  /\ calc = NoCalc
  /\ \E path \in FloorPaths, raw \in FloorRaws :
       calc' = [op |-> "floors", arg |-> <<path, raw>>, out |-> FloorsCompute(path, raw)]
  /\ UNCHANGED <<reqVars, authVars>>

\* ---- fields with several candidate locations
\* The candidate locations of a field, in the order the code names them:
\*  sleep_score (sync): dailySleepDTO.sleepScores.overall.value, sleepScore,
\*    dailySleepDTO.sleepScore, sleepQualityScore, dailySleepDTO.sleepQualityScore
\*  sleep_score_display (get_sleep): sleepScore, dailySleepDTO.sleepScore,
\*    sleepQualityScore, dailySleepDTO.sleepQualityScore
\*  sleep_duration: dailySleepDTO.sleepTimeSeconds, sleepTimeSeconds
\*  vo2_max: max_metrics.vo2MaxPreciseValue, max_metrics.vo2MaxValue,
\*    mostRecentVO2Max.generic.vo2MaxPreciseValue, ...generic.vo2MaxValue
\*  training_readiness: score, trainingReadinessScore, trainingReadiness
ResolvedFields ==
  {"sleep_score", "sleep_score_display", "sleep_duration", "vo2_max", "training_readiness"}
Candidates(field) ==
  CASE field = "sleep_score" -> 1..5
    [] field = "sleep_score_display" -> 1..4
    [] field = "sleep_duration" -> 1..2
    [] field = "vo2_max" -> 1..4
    [] OTHER -> 1..3

\* `a or b or c`: the first candidate of cands (in order) that doc holds; 0 is
\* None.  doc[i] tells whether candidate i is present; its value is named i.
FirstOf(doc, cands) ==
  IF \E i \in cands : doc[i]
  THEN CHOOSE i \in cands : doc[i] /\ \A j \in cands : doc[j] => i <= j
  ELSE 0

\* The candidate the code resolves the field to, for a document that is a dict
\* (with a dict in dailySleepDTO).
ResolveField(field, doc) ==
  CASE field = "sleep_score" ->
         \* overall.value, then `A if c1 else None or B if c2 else ...`: Python
         \* reads the chain as A if c1 else (...), so for a dict it is A
         IF doc[1] THEN 1 ELSE FirstOf(doc, {2})
    [] field = "sleep_score_display" -> FirstOf(doc, {1})
    [] OTHER -> FirstOf(doc, Candidates(field))

CalcResolve ==
  /\ calc = NoCalc
  /\ \E field \in ResolvedFields :
       \E doc \in [Candidates(field) -> BOOLEAN] :
         calc' = [op |-> "resolve", arg |-> <<field, doc>>, out |-> ResolveField(field, doc)]
  /\ UNCHANGED <<reqVars, authVars>>

\* ---- training readiness and its fallback to the training status
MaxDevices == 2
StatusCodes == 0..8
ReadinessScore == 55

\* A text as str.capitalize sees it: its letters and their case.
Word(stem, case) == [stem |-> stem, case |-> case]
NoLabel == Word("", "none")
EmptyLabel == Word("", "empty")
ApiLevel == Word("level", "api")

\* status_map of get_live_data; .get(status_code, '') outside 0..7
StatusMap(code) ==
  CASE code = 0 -> Word("no status", "title")
    [] code = 1 -> Word("detraining", "capital")
    [] code = 2 -> Word("recovery", "capital")
    [] code = 3 -> Word("maintaining", "capital")
    [] code = 4 -> Word("productive", "capital")
    [] code = 5 -> Word("peaking", "capital")
    [] code = 6 -> Word("overreaching", "capital")
    [] code = 7 -> Word("unproductive", "capital")
    [] OTHER -> EmptyLabel

\* trainingStatusFeedbackPhrase as the parts between its underscores; <<>> when
\* the key is missing or the phrase is empty.
FeedbackPhrases ==
  {<<>>, <<Word("productive", "upper"), Word("3", "digit")>>,
         <<Word("peaking", "lower"), Word("1", "digit")>>}

\* str.capitalize: first letter upper, the rest lower; digits are unchanged
Capitalize(word) ==
  IF word.case \in {"upper", "lower", "capital", "title"}
  THEN Word(word.stem, "capital")
  ELSE word

\* feedback.split('_')[0].capitalize() if feedback else None
ParsedLabel(feedback) == IF feedback = <<>> THEN NoLabel ELSE Capitalize(Head(feedback))

\* An entry of latestTrainingStatusData: the status of one device, or a value
\* that is not an object.
NonDict == [dict |-> FALSE, code |-> 0, feedback |-> <<>>]
DeviceEntries ==
  {NonDict} \cup [dict : {TRUE}, code : StatusCodes, feedback : FeedbackPhrases]
DeviceTables == UNION {[1..n -> DeviceEntries] : n \in 0..MaxDevices}

\* What the readiness endpoint and get_training_status returned: whether the
\* readiness object carries a score, and the device table (null: no training
\* status payload).
ReadinessRaws ==
  [score : BOOLEAN, status : {"null", "dict"}, devices : DeviceTables]

NoReadiness == [from |-> "none", value |-> 0, level |-> NoLabel]

\* for device_id, status_data in ltd.items(): the first entry that is a dict
RECURSIVE FirstDevice(_)
FirstDevice(devices) ==
  IF devices = <<>> THEN NoReadiness
  ELSE IF Head(devices).dict
       THEN LET parsed == ParsedLabel(Head(devices).feedback)
            IN [from |-> "status", value |-> Head(devices).code,
                level |-> IF parsed # NoLabel /\ parsed.stem # "" THEN parsed
                          ELSE StatusMap(Head(devices).code)]
       ELSE FirstDevice(Tail(devices))

ReadinessPaths == {"sync", "healthmetrics", "live"}

\* The training readiness a handler resolves.  sync and /api/healthmetrics take
\* the score of the readiness payload and nothing else; /api/live falls back to
\* the device table of the training status.
ReadinessCompute(path, raw) ==
  IF path = "live"
  THEN IF raw.score THEN [from |-> "score", value |-> ReadinessScore, level |-> ApiLevel]
       ELSE IF raw.status = "dict" THEN FirstDevice(raw.devices)
       ELSE NoReadiness
  ELSE IF raw.score THEN [from |-> "score", value |-> ReadinessScore, level |-> NoLabel]
       ELSE NoReadiness

CalcReadiness ==
  /\ calc = NoCalc
  /\ \E path \in ReadinessPaths, raw \in ReadinessRaws :
       calc' = [op |-> "readiness", arg |-> <<path, raw>>, out |-> ReadinessCompute(path, raw)]
  /\ UNCHANGED <<reqVars, authVars>>

\* ---- fitness age
\* Ages in tenths of a year, so that a fractional value is an integer here.
Tenths == 10
AgeTenths == {0, 420, 424, 425, 427, 435}

\* fa_val of the fitness-age endpoint: an int, or a float (43.0 is a float too)
FaValues ==
  {v \in [tenths : AgeTenths, float : BOOLEAN] : ~v.float => v.tenths % Tenths = 0}
NoAge == [has |-> FALSE, tenths |-> 0]
SomeAge(t) == [has |-> TRUE, tenths |-> t]

\* What get_fitnessage_data did: raised, returned nothing usable, returned an
\* object without fitnessAge, or an object with it.
FitnessAgeReplies ==
  [call : {"raise", "null", "nofield"}, value : {[tenths |-> 0, float |-> FALSE]}]
    \cup [call : {"value"}, value : FaValues]

\* fitnessAge of the max-metrics object (absent: no object or no such field)
MaxMetricsAges == {NoAge, SomeAge(400), SomeAge(403)}

\* int(): the fraction is dropped
TruncFloat(t) == (t \div Tenths) * Tenths

\* round(): to the nearest integer, a half to the even one
RoundFloat(t) ==
  LET q == t \div Tenths
      r == t % Tenths
  IN IF r < 5 THEN q * Tenths
     ELSE IF r > 5 THEN (q + 1) * Tenths
     ELSE IF q % 2 = 0 THEN q * Tenths ELSE (q + 1) * Tenths

\* round(fa_val) if isinstance(fa_val, float) else fa_val
RoundedAge(v) == SomeAge(IF v.float THEN RoundFloat(v.tenths) ELSE v.tenths)

FitnessAgePaths == {"sync", "healthmetrics", "live"}

FitnessAgeCompute(path, reply, maxAge) ==
  IF path = "live"
  THEN \* health['fitness_age'] from max_metrics first, overwritten by the
       \* endpoint's value when it has one
       IF reply.call = "value" THEN RoundedAge(reply.value) ELSE maxAge
  ELSE \* fitness_age = None; try: endpoint; except: max_metrics.get('fitnessAge')
       CASE reply.call = "value" -> RoundedAge(reply.value)
         [] reply.call = "raise" -> maxAge
         [] OTHER -> NoAge

CalcFitnessAge ==
  /\ calc = NoCalc
  /\ \E path \in FitnessAgePaths, reply \in FitnessAgeReplies, maxAge \in MaxMetricsAges :
       calc' = [op |-> "fitness_age", arg |-> <<path, reply, maxAge>>,
                out |-> FitnessAgeCompute(path, reply, maxAge)]
  /\ UNCHANGED <<reqVars, authVars>>

\* ---- the running goal of the month (get_live_data)
MaxRuns == 2
goal_km == 100
Centi == 100
MonthLengths == {28, 29, 30, 31}
running_types == {"running", "trail_running", "treadmill_running"}
TypeKeys == running_types \cup {"cycling"}
\* act.get('distance'), in metres
Distances == {40000, 49996, 60000}
Activities == [typeKey : TypeKeys, distance : Distances]
ActivityLists == UNION {[1..n -> Activities] : n \in 0..MaxRuns}

AnyType(typeKey) == TRUE
\* type_key in running_types
IsRunning(typeKey) == typeKey \in running_types

\* total_distance_m: the loop over run_activities
RECURSIVE TotalDistance(_)
TotalDistance(acts) ==
  IF acts = <<>> THEN 0
  ELSE (IF IsRunning(Head(acts).typeKey) THEN Head(acts).distance ELSE 0)
       + TotalDistance(Tail(acts))

RECURSIVE RunsCount(_)
RunsCount(acts) ==
  IF acts = <<>> THEN 0
  ELSE (IF IsRunning(Head(acts).typeKey) THEN 1 ELSE 0) + RunsCount(Tail(acts))

\* round(n / d, 2), in hundredths of the unit: the nearest hundredth; a tie goes
\* to the side the binary float happens to lie on, so both neighbours are
\* possible.
FloatRound(n, d) ==
  LET q == n \div d
      r == n % d
  IN IF 2 * r < d THEN {q}
     ELSE IF 2 * r > d THEN {q + 1}
     ELSE {q, q + 1}

Max(a, b) == IF a >= b THEN a ELSE b

OnTrackStrict(total, days_in_month, days_elapsed) ==
  total * days_in_month > goal_km * Centi * days_elapsed
\* total_km >= (goal_km / days_in_month) * days_elapsed, total in hundredths
OnTrack(total, days_in_month, days_elapsed) ==
  total * days_in_month >= goal_km * Centi * days_elapsed

\* result['running_goal'] for today = the given day of a month of the given
\* length; kilometres in hundredths.
RunningGoal(days_in_month, day, acts, total_km, km_per_day_needed) ==
  [total_km |-> total_km,
   remaining_km |-> Max(goal_km * Centi - total_km, 0),
   days_elapsed |-> day,
   days_remaining |-> Max(days_in_month - day, 0),
   km_per_day_needed |-> km_per_day_needed,
   runs_count |-> RunsCount(acts),
   on_track |-> OnTrack(total_km, days_in_month, day)]

CalcRunningGoal ==
  /\ calc = NoCalc
  /\ \E days_in_month \in MonthLengths, acts \in ActivityLists :
       \E day \in 1..days_in_month :
         \E total_km \in FloatRound(TotalDistance(acts), 1000 \div Centi) :
           LET remaining_km == Max(goal_km * Centi - total_km, 0)
               days_remaining == Max(days_in_month - day, 0)
           IN \E pace \in (IF days_remaining > 0
                           THEN FloatRound(remaining_km, days_remaining) ELSE {0}) :
                calc' = [op |-> "running_goal", arg |-> <<days_in_month, day, acts>>,
                         out |-> RunningGoal(days_in_month, day, acts, total_km, pace)]
  /\ UNCHANGED <<reqVars, authVars>>

\* ---- the average heart rate
MaxHrSamples == 2
DirectAverage == 70
\* v[1] of a [timestamp, hr] pair: 0 stands for a null or non-positive reading
HrReadings == {0, 61, 64}
HrSeries == UNION {[1..n -> HrReadings] : n \in 0..MaxHrSamples}
\* hr_data as a dict: whether averageHeartRate is present, and heartRateValues
HrRaws == [direct : BOOLEAN, values : HrSeries]

NoAverage == [has |-> FALSE, value |-> 0]
SomeAverage(v) == [has |-> TRUE, value |-> v]

\* [v[1] for v in heart_rate_values if ... v[1] > 0]
RECURSIVE PositiveReadings(_)
PositiveReadings(values) ==
  IF values = <<>> THEN <<>>
  ELSE (IF Head(values) > 0 THEN <<Head(values)>> ELSE <<>>) \o PositiveReadings(Tail(values))

RECURSIVE SumSeq(_)
SumSeq(s) == IF s = <<>> THEN 0 ELSE Head(s) + SumSeq(Tail(s))

\* int(sum(hr_values) / len(hr_values)) if hr_values else None
SampleAverage(values) ==
  LET hr_values == PositiveReadings(values)
  IN IF hr_values = <<>> THEN NoAverage
     ELSE SomeAverage(SumSeq(hr_values) \div Len(hr_values))

\* hr_data.get('averageHeartRate')
DirectField(raw) == IF raw.direct THEN SomeAverage(DirectAverage) ELSE NoAverage

AverageHrPaths == {"sync", "display", "all", "live"}

AverageHrCompute(path, raw) ==
  CASE path = "sync" ->
         \* average_hr or hr_data.get('averageHeartRate')
         IF SampleAverage(raw.values).has THEN SampleAverage(raw.values)
         ELSE DirectField(raw)
    [] path = "live" -> SampleAverage(raw.values)
    [] OTHER -> DirectField(raw)

CalcAverageHr ==
  /\ calc = NoCalc
  /\ \E path \in AverageHrPaths, raw \in HrRaws :
       calc' = [op |-> "average_hr", arg |-> <<path, raw>>, out |-> AverageHrCompute(path, raw)]
  /\ UNCHANGED <<reqVars, authVars>>

\* ---- the loop over the activities of a sync
MaxActivities == 2
\* One activity of the list: what garmin.get_activity(id) does for it ("ok": an
\* object with summaryDTO; "raise": the call raises; "nosummary": summaryDTO is
\* null; "notdict": a non-empty value that is not an object, while the list entry
\* itself carries startTimeLocal and activityName), and whether activity_data
\* already holds a row for its id.
DetailReplies == {"ok", "raise", "nosummary", "notdict"}
SyncedActivities == [detail : DetailReplies, existing : BOOLEAN]
SyncedLists == UNION {[1..n -> SyncedActivities] : n \in 0..MaxActivities}

\* The body of the inner try for one activity: what it did to the session.
\*  "inserted" / "updated": the row was added / every field assigned;
\*  "partial": date and activity_name of the existing row were assigned before
\*    activity_detail.get raised; "none": it raised before any write.
ActivityEffect(act) ==
  CASE act.detail = "ok" -> IF act.existing THEN "updated" ELSE "inserted"
    [] act.detail = "notdict" -> IF act.existing THEN "partial" ELSE "none"
    [] OTHER -> "none"

CountedAlways(effect) == TRUE
\* activity_count += 1 is the last statement of the inner try
Counted(effect) == effect \in {"inserted", "updated"}

RECURSIVE ActivityCount(_)
ActivityCount(acts) ==
  IF acts = <<>> THEN 0
  ELSE (IF Counted(ActivityEffect(Head(acts))) THEN 1 ELSE 0) + ActivityCount(Tail(acts))

\* The inner except only logs, so the block ends with 'success'.
ActivityLoop(acts) ==
  [effects |-> [i \in 1..Len(acts) |-> ActivityEffect(acts[i])],
   activity_count |-> ActivityCount(acts),
   status |-> "success"]

CalcActivityLoop ==
  /\ calc = NoCalc
  /\ \E acts \in SyncedLists :
       calc' = [op |-> "activities", arg |-> <<acts>>, out |-> ActivityLoop(acts)]
  /\ UNCHANGED <<reqVars, authVars>>

\* The computations of the handlers, each applied to every input of its domain.
NextCalc ==
  \/ CalcErrorCode
  \/ CalcStress
  \/ CalcFloors
  \/ CalcResolve
  \/ CalcReadiness
  \/ CalcFitnessAge
  \/ CalcRunningGoal
  \/ CalcAverageHr
  \/ CalcActivityLoop

SpecCalc == Init /\ [][NextCalc]_vars

\* One worker: the requests are served one after the other.
NextSeq == Step("w1")

SpecSeq == Init /\ [][NextSeq]_vars

\* ------------------------------------------------------------------ credentials
\* The accounts of the provider; X-Email names one of them.
Users == {"u1", "u2"}
\* X-Password of a request: the header is missing, or the provider would reject
\* it for the account of X-Email, or accept it.
Passwords == {"missing", "wrong", "right"}

\* garmin.login(tokenstore_path): succeeds whenever the directory holds tokens
\* the provider accepts; email and password are not looked at.
CachedLogin == tokenstore.owner # "none" /\ tokenstore.usable

\* A Garmin-data request (any handler behind require_auth that calls
\* get_garmin_client and stores what it fetched under X-Email).
GarminRequest ==
  \E email \in Users, password \in Passwords :
    /\ IF password = "missing"
       THEN \* require_auth
            /\ last_auth' = [email |-> email, password |-> password, code |-> 401]
            /\ UNCHANGED <<tokenstore, stored_as>>
       ELSE IF CachedLogin
       THEN \* "Using cached tokens for {email}"
            /\ last_auth' = [email |-> email, password |-> password, code |-> 200]
            /\ stored_as' = stored_as \cup {[email |-> email, account |-> tokenstore.owner]}
            /\ UNCHANGED tokenstore
       ELSE IF password = "right"
       THEN \* Garmin(email, password).login(); garmin.garth.dump(tokenstore_path)
            /\ last_auth' = [email |-> email, password |-> password, code |-> 200]
            /\ tokenstore' = [owner |-> email, usable |-> TRUE]
            /\ stored_as' = stored_as \cup {[email |-> email, account |-> email]}
       ELSE \* GarminConnectAuthenticationError
            /\ last_auth' = [email |-> email, password |-> password, code |-> 401]
            /\ UNCHANGED <<tokenstore, stored_as>>
    /\ UNCHANGED <<reqVars, calc>>

\* The provider stops accepting the cached tokens (they expired or were
\* revoked): the next garmin.login(tokenstore_path) raises.
TokensExpire ==
  /\ CachedLogin
  /\ tokenstore' = [tokenstore EXCEPT !.usable = FALSE]
  /\ UNCHANGED <<stored_as, last_auth, reqVars, calc>>

NextAuth ==
  \/ GarminRequest
  \/ TokensExpire

SpecAuth == Init /\ [][NextAuth]_vars

\* ------------------------------------------------------------------ properties
\* The sync of worker w ran its seven blocks and the commit; its response (200, or
\* 500 after the rollback) is built and not yet delivered.
Reported(w) == pc[w] = "done" /\ req[w].kind = "sync" /\ resp[w] \in {200, 500}

\* The natural key (besides the email) of the row the sync of w writes to table f.
KeyOf(w, f) == IF f = "activities" THEN CHOOSE id \in ActivityIds : TRUE ELSE req[w].date

\* The row the sync of w derives for table f from the provider snapshot it read.
SyncRow(w, f) ==
  CASE f = "steps" -> StepsRow(w, req[w].payload)
    [] f = "heart_rate" -> HeartRateRow(w, req[w].payload)
    [] f = "sleep" -> SleepRow(w, req[w].payload)
    [] f = "stress" -> StressRow(w, req[w].payload)
    [] f = "body_battery" -> BodyBatteryRow(w, req[w].payload)
    [] f = "activities" -> ActivityRow(w, KeyOf(w, f), req[w].payload)
    [] OTHER -> HealthRow(w, req[w].payload)

KeyRows(f, e, k) == {i \in 1..Len(db[f]) : db[f][i].email = e /\ db[f][i].key = k}

\* Table f holds exactly one row for the key of the sync of w, with the values of
\* that sync.
Stored(w, f) ==
  LET rows == KeyRows(f, req[w].email, KeyOf(w, f))
  IN Cardinality(rows) = 1 /\ \A i \in rows : db[f][i] = SyncRow(w, f)

ErrorStatuses == {FetchError("conn"), FetchError("auth"), StorageError, ShapeError, NameError}

\* C1: after a sync whose seven fetches all returned data, every family has exactly
\* one row for (user, date) or (user, activity id), holding that sync's values:
\* a repeated sync updates the row in place.
C1_SyncIsIdempotentUpsert ==
  \A w \in Workers :
    Reported(w) /\ faults[w] = {} => \A f \in Families : Stored(w, f)

\* C2: when two syncs for the same user and date both looked the key up before
\* either committed, neither fails: both answer 200 and none of their families
\* reports a storage error.
C2_RacingSyncsBothSucceed ==
  \A w \in raced :
    pc[w] = "done" =>
      /\ resp[w] = 200
      /\ \A f \in Families : sync_status[w][f] # StorageError

\* C3: a committing sync that resolved the secondary field of an existing row as
\* absent leaves that field's stored value as it was.
C3_AbsentFieldKeepsOldValue ==
  [][\A w \in Workers :
       pc[w] = "commit" /\ pc'[w] = "done" /\ resp'[w] = 200 =>
         \A u \in dirty[w] :
           u.row.b = Null => db'[u.fam][u.idx].b = db[u.fam][u.idx].b]_vars

\* C4: when exactly one family's fetch raised a connectivity error, that family
\* reports the error and each of the other six reports success and is stored,
\* whatever rows the tables held before.
C4_FetchErrorIsIsolated ==
  \A w \in Workers :
    Reported(w) /\ (\E g \in Families : faults[w] = {g} /\ sync_status[w][g] = FetchError("conn"))
      => \A f \in Families \ faults[w] : sync_status[w][f] = "success" /\ Stored(w, f)

\* The families whose INSERT met an existing row of the key: evaluated after the
\* rollback of a sequentially served sync, which restored the rows it met.
Rejected(w) == {f \in {"steps", "heart_rate"} : KeyRows(f, req[w].email, KeyOf(w, f)) # {}}

\* C5: when persisting one family's record failed on its unique key, the sibling
\* families of that sync report success and are stored, and only the failed family
\* reports an error.
C5_StorageFailureIsIsolated ==
  \A w \in Workers :
    Reported(w) /\ faults[w] = {} /\ resp[w] = 500 =>
      /\ \A f \in Rejected(w) : sync_status[w][f] \in ErrorStatuses
      /\ \A f \in Families \ Rejected(w) : sync_status[w][f] = "success" /\ Stored(w, f)

\* C6: an authentication error of the provider is never recorded as a family's
\* entry of sync_status (the sync is aborted with 401 instead).
C6_AuthErrorIsNeverAnEntry ==
  \A w \in Workers : \A f \in Families : sync_status[w][f] # FetchError("auth")

\* C7: the sync_status of a sync that ran to its response has an entry for each of
\* the seven families, and the entry is 'success', 'no_data' or 'error: <message>'.
C7_EveryFamilyHasStatus ==
  \A w \in Workers :
    Reported(w) =>
      \A f \in Families : sync_status[w][f] \in {"success", "no_data"} \cup ErrorStatuses

\* A sync answered after a failed commit, with a 'no_data', a storage error and a
\* 'success' entry in its report.
C7_Witness ==
  \E w \in Workers :
    /\ Reported(w) /\ resp[w] = 500
    /\ \E f \in Families : sync_status[w][f] = "no_data"
    /\ \E f \in Families : sync_status[w][f] = StorageError
    /\ \E f \in Families : sync_status[w][f] = "success"

\* C8: a family reported 'success' by a sync, its fetch having returned data, has
\* its row in the table with the values of that sync.
C8_SuccessMeansStored ==
  \A w \in Workers : \A f \in Families :
    Reported(w) /\ sync_status[w][f] = "success" /\ f \notin faults[w] => Stored(w, f)

\* C9: no table ever holds two rows with the same natural key, (email, date) or
\* (email, activity_id).
C9_OneRowPerKey ==
  \A f \in Families : \A i, j \in 1..Len(db[f]) :
    i # j => ~(db[f][i].email = db[f][j].email /\ db[f][i].key = db[f][j].key)

\* A sync whose INSERTs met the rows of an earlier request and were rejected.
C9_Witness ==
  \E w \in Workers :
    /\ Reported(w) /\ resp[w] = 500 /\ faults[w] = {}
    /\ Len(db["steps"]) = 1 /\ Len(db["heart_rate"]) = 1

\* C10: no step removes a committed row: every table keeps its rows, each with
\* its natural key and date.
C10_RowsAreNeverDeleted ==
  [][\A f \in Families :
       /\ Len(db'[f]) >= Len(db[f])
       /\ \A i \in 1..Len(db[f]) :
            /\ db'[f][i].email = db[f][i].email
            /\ db'[f][i].key = db[f][i].key
            /\ db'[f][i].date = db[f][i].date]_vars

\* A fetch-and-display request committed its update of a row that the one
\* request before it, a sync, had created; the seven tables still hold their row.
C10_Witness ==
  /\ served = 2
  /\ \E w \in Workers : pc[w] = "done" /\ req[w].kind = "display" /\ resp[w] = 200
  /\ \A f \in Families : Len(db[f]) = 1

\* The request is a sync with a malformed date, or a database read with a missing
\* email, a missing or malformed date, or an unknown data type.
Malformed(r) ==
  \/ r.kind = "sync" /\ r.date = BadDate
  \/ r.kind = "read" /\ (r.email = "" \/ r.date \in {"", BadDate} \/ r.fam \notin DataTypes)

\* C11: the step that takes a malformed sync or database read answers it at once
\* with 400, without calling the provider (no login, no fetch), and leaves the
\* tables and the session as they were.
C11_MalformedInputIs400 ==
  [][\A w \in Workers :
       pc[w] = "idle" /\ pc'[w] # "idle" /\ Malformed(req'[w]) =>
         /\ pc'[w] = "done" /\ resp'[w] = 400
         /\ req'[w].login = "none" /\ faults'[w] = {}
         /\ db' = db
         /\ pendingNew' = pendingNew /\ txNew' = txNew /\ dirty' = dirty]_vars

\* A sync with a malformed date was answered 400 while the tables hold rows.
C11_Witness ==
  \E w \in Workers :
    /\ pc[w] = "done" /\ req[w].kind = "sync" /\ req[w].date = BadDate /\ resp[w] = 400
    /\ Len(db["steps"]) = 1

\* C12: on every fetch-and-display endpoint an upstream rate-limit error is
\* answered 429, a connectivity error 503 and an authentication error 401.
C12_UpstreamErrorCodes ==
  calc.op = "error_code" =>
    calc.out = CASE calc.arg[2] = "rate" -> 429
                 [] calc.arg[2] = "conn" -> 503
                 [] OTHER -> 401

\* The samples of the evaluated stress document that are lists of two or more
\* elements, with the level the code reads from each (0 when not a number).
WellFormedLevels(raw) ==
  LET s == raw.samples
  IN [i \in {j \in 1..Len(s) : s[j].kind # "bad"} |->
        IF s[i].kind = "num" THEN s[i].level ELSE 0]

\* A stress document with a sample list was evaluated to its end.
StressEvaluated ==
  /\ calc.op = "stress" /\ calc.out.status = "ok"
  /\ HasDict(calc.arg[2]) /\ calc.arg[2].values = "list"

RECURSIVE SumOver(_, _)
SumOver(f, S) == IF S = {} THEN 0 ELSE LET x == CHOOSE x \in S : TRUE
                                       IN f[x] + SumOver(f, S \ {x})

\* C15: on the two storing paths the average is the upstream avgStressLevel
\* when the document supplies one, otherwise the 3-minute weighted sum of the
\* levels > 0 divided by the monitored minutes, rounded to 2 places (0 when no
\* level is > 0); the maximum is the larger of the local maximum and the upstream
\* maxStressLevel.
C15_AverageAndMax ==
  calc.op = "stress" /\ calc.out.status = "ok" /\ calc.arg[1] \in {"sync", "display"} =>
    LET raw == calc.arg[2]
        lv == WellFormedLevels(raw)
        pos == {i \in DOMAIN lv : lv[i] > 0}
        localMax == IF pos = {} THEN 0
                    ELSE CHOOSE m \in {lv[i] : i \in pos} : \A i \in pos : lv[i] <= m
    IN /\ calc.out.avg100 =
            IF HasDict(raw) /\ raw.hasAvg THEN 100 * raw.avg
            ELSE IF pos = {} THEN 0
            ELSE Round2(3 * SumOver(lv, pos), 3 * Cardinality(pos))
       /\ calc.out.max =
            IF HasDict(raw) /\ raw.hasMax /\ raw.max > localMax THEN raw.max ELSE localMax

\* The upstream maximum 30 is below the local maximum 76, which is kept; the
\* upstream average 40 is stored.
C15_Witness ==
  /\ calc.op = "stress" /\ calc.out.status = "ok" /\ calc.arg[1] = "sync"
  /\ calc.arg[2].hasMax /\ calc.arg[2].max = 30 /\ calc.arg[2].hasAvg
  /\ calc.out.stats.max = 76 /\ calc.out.max = 76 /\ calc.out.avg100 = 4000

\* C16: on each of the three paths, a stress document whose sample list is
\* empty, missing, null, not a list, or holds only malformed entries gives all-zero
\* buckets and a zero local average, and no error.
C16_BadSampleListIsZero ==
  LET raw == calc.arg[2]
  IN /\ calc.op = "stress" /\ HasDict(raw)
     /\ \/ raw.values \in {"missing", "null", "scalar"}
        \/ raw.values = "list" /\ \A i \in 1..Len(raw.samples) : raw.samples[i].kind = "bad"
     => /\ calc.out.status = "ok"
        /\ calc.out.stats = ZeroStats

\* C17: on each of the four paths floors climbed is the sum of the third
\* elements of the well-formed floorValuesArray entries, absent (not 0) when that
\* sum is 0, and a scalar raw value is passed through as the total.
C17_FloorsResolution ==
  LET raw == calc.arg[2]
  IN calc.op = "floors" =>
       /\ raw.shape = "dict" /\ raw.array = "list" =>
            /\ calc.out.status = "ok"
            /\ IF FloorSum(raw.entries) = 0
               THEN ~calc.out.present
               ELSE calc.out.present /\ calc.out.value = FloorSum(raw.entries)
       /\ raw.shape = "scalar" /\ raw.scalar # 0 =>
            calc.out.status = "ok" /\ calc.out.present /\ calc.out.value = raw.scalar

\* C18: a field with several candidate locations resolves to the first
\* candidate, in declaration order, that is present; when the first is absent and
\* a later one is present, it is the later one's value.
C18_FirstPresentCandidate ==
  calc.op = "resolve" =>
    LET doc == calc.arg[2]
    IN IF \E i \in DOMAIN doc : doc[i]
       THEN /\ calc.out \in DOMAIN doc /\ doc[calc.out]
            /\ \A j \in DOMAIN doc : doc[j] => calc.out <= j
       ELSE calc.out = 0

\* C19: resolving the fields of a family never raises, whatever shape the
\* provider's document has: no family of a sync reports the exception of a
\* resolution.
C19_ResolutionNeverRaises ==
  \A w \in Workers : \A f \in Families : sync_status[w][f] # ShapeError

\* C20: when the fetch of one health sub-metric failed, the sync still reports
\* health_metrics as success and stores the health-metrics row with the other
\* sub-metrics.
C20_HealthSubMetricIsolated ==
  \A w \in Workers :
    Reported(w) /\ resp[w] = 200 /\ faults[w] = {"health_metrics"} =>
      /\ sync_status[w]["health_metrics"] = "success"
      /\ KeyRows("health_metrics", req[w].email, req[w].date) # {}

\* C21: whenever the readiness payload has no score and the training status has
\* a device table whose first entry is an object, the training readiness is that
\* entry's status code, and its label is the capitalized leading word of the
\* feedback phrase when there is one, and else the table's label of the code.
C21_ReadinessFallsBackToStatus ==
  calc.op = "readiness" =>
    LET raw == calc.arg[2]
    IN (~raw.score /\ raw.status = "dict" /\ raw.devices # <<>> /\ raw.devices[1].dict) =>
         LET dev == raw.devices[1]
         IN /\ calc.out.from = "status"
            /\ calc.out.value = dev.code
            /\ calc.out.level =
                 IF dev.feedback # <<>>
                 THEN Word(dev.feedback[1].stem, "capital")
                 ELSE IF dev.code \in 0..7 THEN StatusMap(dev.code) ELSE calc.out.level

\* C22: when the fitness-age endpoint returns a value, the fitness age is that
\* value, an integer value unchanged and a float rounded to a nearest integer;
\* when the call to the endpoint fails, the fitness age is the fitnessAge of the
\* max-metrics payload.
C22_FitnessAgePrefersEndpoint ==
  calc.op = "fitness_age" =>
    LET reply == calc.arg[2]
        maxAge == calc.arg[3]
        d == calc.out.tenths - reply.value.tenths
    IN /\ reply.call = "value" =>
            /\ calc.out.has
            /\ ~reply.value.float => calc.out.tenths = reply.value.tenths
            /\ reply.value.float =>
                 /\ calc.out.tenths % Tenths = 0
                 /\ 2 * d <= Tenths /\ 2 * d >= 0 - Tenths
       /\ reply.call = "raise" => calc.out = maxAge

C22_Witness ==
  /\ calc.op = "fitness_age"
  /\ calc.arg[1] = "sync"
  /\ calc.arg[2].call = "value"
  /\ calc.arg[2].value.float
  /\ calc.arg[2].value.tenths = 427
  /\ calc.out = SomeAge(430)

\* The distance (metres) of the activities of acts whose type key is one of
\* running, trail_running, treadmill_running.
RECURSIVE RunningMetres(_)
RunningMetres(acts) ==
  IF acts = <<>> THEN 0
  ELSE (IF Head(acts).typeKey \in {"running", "trail_running", "treadmill_running"}
        THEN Head(acts).distance ELSE 0) + RunningMetres(Tail(acts))

\* C23: the running-goal projection totals the distance of the running
\* activities only (to the hundredth of a kilometre it reports), remaining is
\* max(100 - total, 0), days_elapsed is the day of the month, days_remaining is
\* max(days_in_month - days_elapsed, 0), the pace per day is remaining /
\* days_remaining to the nearest hundredth when days_remaining > 0 and 0
\* otherwise, and none of remaining, days_remaining, pace is negative.
C23_RunningGoalProjection ==
  calc.op = "running_goal" =>
    LET dim == calc.arg[1]
        day == calc.arg[2]
        o == calc.out
        dm == 10 * o.total_km - RunningMetres(calc.arg[3])
        dp == o.km_per_day_needed * o.days_remaining - o.remaining_km
    IN /\ 2 * dm <= 10 /\ 2 * dm >= 0 - 10
       /\ o.remaining_km = (IF o.total_km >= 10000 THEN 0 ELSE 10000 - o.total_km)
       /\ o.days_elapsed = day
       /\ o.days_remaining = (IF dim >= day THEN dim - day ELSE 0)
       /\ o.days_remaining > 0 => 2 * dp <= o.days_remaining /\ 2 * dp >= 0 - o.days_remaining
       /\ o.days_remaining = 0 => o.km_per_day_needed = 0
       /\ o.remaining_km >= 0 /\ o.days_remaining >= 0 /\ o.km_per_day_needed >= 0

C23_Witness ==
  /\ calc.op = "running_goal"
  /\ calc.arg[1] = 30 /\ calc.arg[2] = 15
  /\ Len(calc.arg[3]) = 2
  /\ calc.arg[3][1].typeKey = "cycling"
  /\ calc.arg[3][2].typeKey = "trail_running"
  /\ calc.out.total_km = 4000
  /\ calc.out.remaining_km = 6000
  /\ calc.out.days_remaining = 15
  /\ calc.out.km_per_day_needed = 400

C25_AverageFromSamples ==
  calc.op = "average_hr" =>
    LET raw == calc.arg[2]
        pos == {i \in 1..Len(raw.values) : raw.values[i] > 0}
        total == SumSeq([i \in 1..Len(raw.values) |->
                           IF raw.values[i] > 0 THEN raw.values[i] ELSE 0])
    IN /\ (~raw.direct /\ pos # {}) =>
            calc.out.has /\ calc.out.value = total \div Cardinality(pos)
       /\ ~calc.out.has => (~raw.direct /\ pos = {})

\* The fetch of family f in the sync of w returned without raising and without
\* data the sync could read: null for stress, an empty document for sleep.
ReturnedNothing(w, f) ==
  /\ f \in faults[w]
  /\ sync_status[w][f] \notin {FetchError("conn"), FetchError("auth"), ShapeError, StorageError}

\* C26: when the provider returned null for stress, or an empty payload for
\* sleep, the final report of the sync has no_data for that family and the
\* commit of the sync leaves the family's table as it was.
C26_NoDataIsReported ==
  [][\A w \in Workers : \A f \in {"sleep", "stress"} :
       (req[w].kind = "sync" /\ pc[w] = "commit" /\ pc'[w] = "done" /\ ReturnedNothing(w, f))
         => (sync_status'[w][f] = "no_data" /\ db'[f] = db[f])]_vars

\* C27: when a sync reports an error for a family, the commit of that sync
\* leaves the family's table field for field as it was before.
C27_ErrorLeavesRowUntouched ==
  [][\A w \in Workers : \A f \in Families :
       (req[w].kind = "sync" /\ pc[w] = "commit" /\ pc'[w] = "done"
          /\ sync_status[w][f] \in ErrorStatuses)
         => db'[f] = db[f]]_vars

C29_HandlersResolveAlike ==
  /\ calc.op = "floors" =>
       \A p \in FloorPaths : FloorsCompute(p, calc.arg[2]) = calc.out
  /\ calc.op = "average_hr" =>
       \A p \in {"sync", "all", "live"} : AverageHrCompute(p, calc.arg[2]) = calc.out
  /\ calc.op = "fitness_age" =>
       \A p \in FitnessAgePaths : FitnessAgeCompute(p, calc.arg[2], calc.arg[3]) = calc.out
  /\ calc.op = "readiness" =>
       \A p \in ReadinessPaths : ReadinessCompute(p, calc.arg[2]) = calc.out

\* C30: a request whose password the provider would reject for its X-Email is
\* answered 401, and whatever is stored under an email was fetched with a
\* session of that email's account.
C30_OnlyOwnCredentials ==
  /\ last_auth.password = "wrong" => last_auth.code = 401
  /\ \A r \in stored_as : r.account = r.email

====
